---- MODULE Spec2Model ----
(***************************************************************************)
(* Model of the playback engine of pico_synth_sandbox-player (src/code.py):*)
(* class SongPlayer (play / stop / is_playing / update), the Audio Channel *)
(* and MIDI Output it drives, and the cooperative scheduler that runs      *)
(* update() while encoder callbacks call play() and stop().                *)
(*                                                                         *)
(* update() is a coroutine.  Its only suspension point is the              *)
(* asyncio.sleep at line 235, so it is modelled as two actions: Update     *)
(* runs from the call to the first suspension or to the return, Resume     *)
(* runs from the end of a sleep to the next suspension or to the return.   *)
(* Everything between two suspension points is one atomic step, and the    *)
(* clock is read once per step.  The periodic driver awaits update()      *)
(* before calling it again, so at most one update() call is in progress.   *)
(*                                                                         *)
(* open() and audiocore.WaveFile() may raise inside play(); nothing in     *)
(* src/code.py catches the exception, and the model lets the program go on *)
(* from the state the exception left.  umidiparser.MidiFile() is taken to  *)
(* succeed.  Time is counted in units of 1000 microseconds.                *)
(***************************************************************************)
EXTENDS Integers, Sequences, FiniteSets, TLC

\* ---------------------------------------------------------------- bounds
\* number of play() calls with a Song that the model explores
MaxPlays == 2
\* the clock stops ticking at MaxTime unless a sleep is still pending
MaxTime == 5
\* number of turns of the volume encoder that the model explores
MaxVolumeCalls == 1

\* ------------------------------------------------------------ the catalog
None == 0

NOTE_ON == "NOTE_ON"
NOTE_OFF == "NOTE_OFF"
CONTROL_CHANGE == "CONTROL_CHANGE"
PROGRAM_CHANGE == "PROGRAM_CHANGE"
META == "META"

\* the events of the MIDI assets, as umidiparser yields them
NoEvents == << >>
EventsB == << [delta_us |-> 1, status |-> NOTE_ON],
              [delta_us |-> 1, status |-> CONTROL_CHANGE],
              [delta_us |-> 2, status |-> NOTE_OFF],
              [delta_us |-> 3, status |-> PROGRAM_CHANGE] >>
EventsC == << [delta_us |-> 0, status |-> NOTE_ON],
              [delta_us |-> 2, status |-> META],
              [delta_us |-> 0, status |-> NOTE_OFF] >>

\* songs: 1 has only an audio asset, 2 only a MIDI asset, 3 has both
songs == << [audio_file |-> TRUE,  midi_file |-> FALSE, events |-> NoEvents],
            [audio_file |-> FALSE, midi_file |-> TRUE,  events |-> EventsB],
            [audio_file |-> TRUE,  midi_file |-> TRUE,  events |-> EventsC] >>

has_audio(x) == songs[x].audio_file
has_midi(x) == songs[x].midi_file
\* isinstance(song, Song); anything else (None) is not a Song
IsSong(x) == x \in 1..Len(songs)
AudioOnly(x) == IsSong(x) /\ has_audio(x) /\ ~has_midi(x)
MidiOnly(x) == IsSong(x) /\ has_midi(x) /\ ~has_audio(x)

NoOrigin == -1

\* outcome of opening and decoding the audio asset inside play()
AudioOutcomes == {"ok", "open_fail", "decode_fail"}

\* gain levels are counted in steps of 0.05: 20 is 1.0
LevelStep == 1
LevelMax == 20
\* the level the Audio Channel has after configure()
DefaultLevel == 20
\* the levels config["volume"] may have set before line 168 reads them
InitLevels == {0, 20}
\* the index argument of toggle_song: << >> is None, << i >> the integer i
Indices == {<< >>} \cup {<< i >> : i \in -1..Len(songs)}

VARIABLES
    \* SongPlayer fields
    song, audio_file, audio_wav, audio_playing, midi_track, midi_playing,
    start_time,
    \* Audio Channel: the streams it is playing; files: the open handles
    streams, open_files,
    \* the generators made by MidiFile.play that are still referenced:
    \* cursors[i] = [song, pos], pos the number of events pulled
    cursors,
    \* MIDI Output: the commands sent since the last play(), in order
    midi_out,
    \* time.monotonic_ns() // 1000
    now,
    \* the update() coroutine: where it is and its locals
    pc, u_iter, u_midi_time, u_idx, u_delay, u_wake,
    \* bookkeeping: plays made, result of the last play(), the last call
    \* and the state it started from, the cursors whose session was stopped
    \* during a suspension
    plays, play_result, last, cancelled,
    \* the globals selected and level, and the Audio Channel's own level
    selected, level, audio_level,
    \* bookkeeping: the origin that the play() that opened the session
    \* recorded at line 205 (NoOrigin if it did not get there), and the
    \* turns of the volume encoder made
    origin, vcalls

vars == << song, audio_file, audio_wav, audio_playing, midi_track,
           midi_playing, start_time, streams, open_files, cursors, midi_out,
           now, pc, u_iter, u_midi_time, u_idx, u_delay, u_wake,
           plays, play_result, last, cancelled, selected, level,
           audio_level, origin, vcalls >>

\* the whole state as one record, so that a call is a function on states
Cur == [ song |-> song, audio_file |-> audio_file, audio_wav |-> audio_wav,
         audio_playing |-> audio_playing, midi_track |-> midi_track,
         midi_playing |-> midi_playing, start_time |-> start_time,
         streams |-> streams, open_files |-> open_files,
         cursors |-> cursors, midi_out |-> midi_out, now |-> now,
         pc |-> pc, u_iter |-> u_iter, u_midi_time |-> u_midi_time,
         u_idx |-> u_idx, u_delay |-> u_delay, u_wake |-> u_wake,
         plays |-> plays, play_result |-> play_result,
         cancelled |-> cancelled, selected |-> selected, level |-> level,
         audio_level |-> audio_level, origin |-> origin,
         vcalls |-> vcalls ]

\* a generator nobody references any more is collected
Live(s) == {s.midi_track, s.u_iter} \ {None}
Collect(s) ==
    [s EXCEPT !.cursors = [c \in Live(s) |-> s.cursors[c]],
              !.cancelled = @ \cap Live(s)]

Commit(s) ==
    /\ song' = s.song
    /\ audio_file' = s.audio_file
    /\ audio_wav' = s.audio_wav
    /\ audio_playing' = s.audio_playing
    /\ midi_track' = s.midi_track
    /\ midi_playing' = s.midi_playing
    /\ start_time' = s.start_time
    /\ streams' = s.streams
    /\ open_files' = s.open_files
    /\ cursors' = Collect(s).cursors
    /\ midi_out' = s.midi_out
    /\ now' = s.now
    /\ pc' = s.pc
    /\ u_iter' = s.u_iter
    /\ u_midi_time' = s.u_midi_time
    /\ u_idx' = s.u_idx
    /\ u_delay' = s.u_delay
    /\ u_wake' = s.u_wake
    /\ plays' = s.plays
    /\ play_result' = s.play_result
    /\ cancelled' = Collect(s).cancelled
    /\ selected' = s.selected
    /\ level' = s.level
    /\ audio_level' = s.audio_level
    /\ origin' = s.origin
    /\ vcalls' = s.vcalls

\* the engine and the Audio Channel as a caller finds them
Snapshot(s) == [ song |-> s.song, audio_file |-> s.audio_file,
                 audio_playing |-> s.audio_playing,
                 midi_track |-> s.midi_track,
                 midi_playing |-> s.midi_playing,
                 start_time |-> s.start_time, streams |-> s.streams,
                 open_files |-> s.open_files ]

\* events the cursor c has not yielded yet
Left(s, c) == Len(songs[s.cursors[c].song].events) - s.cursors[c].pos

\* the last call: which, its argument, how the audio asset opened in it and
\* the state it started from; cleared when the clock or the channel moves
NoPre == [ song |-> None, audio_file |-> None, audio_playing |-> FALSE,
           midi_track |-> None, midi_playing |-> FALSE, start_time |-> 0,
           streams |-> {}, open_files |-> {} ]
NoCall == [op |-> "none", arg |-> None, outcome |-> "none", pre |-> NoPre,
           stale |-> FALSE, left |-> 0, selected |-> 0, level |-> 0,
           index |-> << >>]
\* stale: the call is a resumption of an update() whose cursor was
\* cancelled; left: the events the cursor of the call had not yielded; selected,
\* level: the globals as the call found them; index: toggle_song's argument
Call(op, arg, outcome, s) ==
    [op |-> op, arg |-> arg, outcome |-> outcome, pre |-> Snapshot(s),
     stale |-> (op = "resume" /\ s.u_iter \in s.cancelled),
     left |-> IF op = "resume" THEN Left(s, s.u_iter)
              ELSE IF op = "update" /\ s.midi_track # None
                   THEN Left(s, s.midi_track) ELSE 0,
     selected |-> s.selected, level |-> s.level, index |-> << >>]

\* a stop() from outside update() while update() is suspended in its loop
\* cancels the cursor that call is iterating
Cancel(s) == IF s.pc = "sleep" THEN s.cancelled \cup {s.u_iter}
             ELSE s.cancelled

\* ------------------------------------------------------------ SongPlayer
\* audio.is_playing()
AudioIsPlaying(s) == s.streams # {}

is_playing(s) == s.song # None

\* stop() that leaves the stream running and the file open
stop_keeps_audio(s) ==
    [s EXCEPT !.audio_file = None, !.midi_playing = FALSE, !.song = None]

\* stop() without line 213
stop_keeps_midi(s) ==
    [s EXCEPT !.streams = {},
              !.open_files = IF s.audio_file # None
                             THEN @ \ {s.audio_file} ELSE @,
              !.audio_file = None,
              !.song = None]

stop(s) ==
    [s EXCEPT !.streams = {},
              !.open_files = IF s.audio_file # None
                             THEN @ \ {s.audio_file} ELSE @,
              !.audio_file = None,
              !.midi_playing = FALSE,
              !.song = None]

\* the MIDI branch of play(): a new generator over the song's events
open_midi(s, x) ==
    IF has_midi(x)
    THEN LET c == CHOOSE i \in 1..(Cardinality(DOMAIN s.cursors) + 1) :
                      i \notin DOMAIN s.cursors
         IN [s EXCEPT !.cursors = [i \in DOMAIN s.cursors \cup {c} |->
                                      IF i = c THEN [song |-> x, pos |-> 0]
                                      ELSE s.cursors[i]],
                      !.midi_track = c]
    ELSE s

\* the audio branch of play() without line 201
open_audio_no_level(s, x, outcome) ==
    IF ~has_audio(x) THEN s
    ELSE IF outcome = "open_fail" THEN [s EXCEPT !.play_result = "raised"]
    ELSE LET h == CHOOSE i \in 1..(Cardinality(s.open_files) + 1) :
                      i \notin s.open_files
             opened == [s EXCEPT !.open_files = @ \cup {h},
                                 !.audio_file = h]
         IN IF outcome = "decode_fail"
            THEN [opened EXCEPT !.play_result = "raised"]
            ELSE [opened EXCEPT !.audio_wav = h,
                                !.audio_level = DefaultLevel,
                                !.streams = @ \cup {h},
                                !.audio_playing = TRUE]

\* the audio branch of play(); open() or WaveFile() may raise
open_audio(s, x, outcome) ==
    IF ~has_audio(x) THEN s
    ELSE IF outcome = "open_fail" THEN [s EXCEPT !.play_result = "raised"]
    ELSE LET h == CHOOSE i \in 1..(Cardinality(s.open_files) + 1) :
                      i \notin s.open_files
             opened == [s EXCEPT !.open_files = @ \cup {h},
                                 !.audio_file = h]
         IN IF outcome = "decode_fail"
            THEN [opened EXCEPT !.play_result = "raised"]
            ELSE LET configured == [opened EXCEPT !.audio_wav = h,
                                                  !.audio_level = DefaultLevel]
                 IN [configured EXCEPT !.audio_level = configured.level,
                                       !.streams = @ \cup {h},
                                       !.audio_playing = TRUE]

play(s, x, outcome) ==
    LET stopped == stop(s)
    IN IF ~IsSong(x) THEN [stopped EXCEPT !.play_result = "false"]
       ELSE LET held == [stopped EXCEPT !.song = x, !.plays = @ + 1,
                                        !.midi_out = << >>,
                                        !.origin = NoOrigin,
                                        !.play_result = "running"]
                media == open_audio(open_midi(held, x), x, outcome)
            IN IF media.play_result = "raised" THEN media
               ELSE [media EXCEPT !.start_time = s.now,
                                  !.origin = s.now,
                                  !.play_result = "true"]

\* the test of line 234 written as delay >= 0
ShouldSleep_or_equal(delay) == delay >= 0

\* the test of line 234 with a threshold of one unit
ShouldSleep_above_one(delay) == delay > 1

\* line 234
ShouldSleep(delay) == delay > 0

\* lines 238-246 with NOTE_OFF sent as a note-on
Command_off_as_on(status) ==
    CASE status = NOTE_ON -> "send_note_on"
      [] status = NOTE_OFF -> "send_note_on"
      [] status = CONTROL_CHANGE -> "send_control_change"
      [] status = PROGRAM_CHANGE -> "send_program_change"
      [] OTHER -> "nothing"

\* lines 238-246: the command an event is sent as
Command(status) ==
    CASE status = NOTE_ON -> "send_note_on"
      [] status = NOTE_OFF -> "send_note_off"
      [] status = CONTROL_CHANGE -> "send_control_change"
      [] status = PROGRAM_CHANGE -> "send_program_change"
      [] OTHER -> "nothing"

EventOf(s) == songs[s.cursors[s.u_iter].song].events[s.u_idx]

dispatch(s, slept) ==
    LET cmd == Command(EventOf(s).status)
    IN IF cmd = "nothing" THEN s
       ELSE [s EXCEPT !.midi_out =
                Append(@, [cmd |-> cmd, cur |-> s.u_iter, idx |-> s.u_idx,
                           song |-> s.cursors[s.u_iter].song,
                           t |-> s.now, delay |-> s.u_delay,
                           slept |-> slept])]

\* lines 249-252 with a poll that never clears the audio segment flag
tail_never_polls(s) ==
    LET ended == IF ~s.midi_playing /\ ~s.audio_playing THEN stop(s) ELSE s
    IN [ended EXCEPT !.pc = "none", !.u_iter = None, !.u_midi_time = 0,
                     !.u_idx = 0, !.u_delay = 0, !.u_wake = 0]

\* lines 249-252 with the end-of-playback test made before the poll
tail_test_first(s) ==
    LET ended == IF ~s.midi_playing /\ ~s.audio_playing THEN stop(s) ELSE s
        polled == IF ended.audio_playing /\ ~AudioIsPlaying(ended)
                  THEN [ended EXCEPT !.audio_playing = FALSE] ELSE ended
    IN [polled EXCEPT !.pc = "none", !.u_iter = None, !.u_midi_time = 0,
                      !.u_idx = 0, !.u_delay = 0, !.u_wake = 0]

\* lines 249-252, and the return of update()
tail(s) ==
    LET polled == IF s.audio_playing /\ ~AudioIsPlaying(s)
                  THEN [s EXCEPT !.audio_playing = FALSE] ELSE s
        ended == IF ~polled.midi_playing /\ ~polled.audio_playing
                 THEN stop(polled) ELSE polled
    IN [ended EXCEPT !.pc = "none", !.u_iter = None, !.u_midi_time = 0,
                     !.u_idx = 0, !.u_delay = 0, !.u_wake = 0]

RECURSIVE loop(_), after_sleep(_, _)
\* lines 236-247 without the test of midi_playing
after_sleep_unchecked(s, slept) ==
    CHOOSE r \in {loop(d) : d \in {dispatch(s, slept)}} : TRUE

\* lines 230-235: pull the next event, or leave the loop when exhausted
loop(s) ==
    LET c == s.cursors[s.u_iter]
        evs == songs[c.song].events
    IN IF c.pos >= Len(evs)
       THEN tail([s EXCEPT !.midi_playing = FALSE])
       ELSE LET idx == c.pos + 1
                midi_time == s.u_midi_time + evs[idx].delta_us
                current_time == s.now - s.start_time
                delay == midi_time - current_time
                pulled == [s EXCEPT !.cursors[s.u_iter].pos = idx,
                                    !.u_midi_time = midi_time,
                                    !.u_idx = idx,
                                    !.u_delay = delay]
            IN IF ShouldSleep(delay)
               THEN [pulled EXCEPT !.pc = "sleep", !.u_wake = s.now + delay]
               ELSE after_sleep(pulled, FALSE)

\* lines 236-247: the cancellation check, the dispatch, the next round
\* (the one-element sets make TLC evaluate the state after the dispatch once)
after_sleep(s, slept) ==
    IF ~s.midi_playing
    THEN tail([s EXCEPT !.midi_playing = FALSE])
    ELSE CHOOSE r \in {loop(d) : d \in {dispatch(s, slept)}} : TRUE

\* update() without the has_midi() test of line 227
update_any_track(s) ==
    IF ~is_playing(s) THEN s
    ELSE IF s.midi_track # None
         THEN loop([s EXCEPT !.midi_playing = TRUE, !.u_midi_time = 0,
                             !.u_iter = s.midi_track])
         ELSE tail(s)

\* lines 223-229: update() from its call to its first suspension or return
update(s) ==
    IF ~is_playing(s) THEN s
    ELSE IF has_midi(s.song) /\ s.midi_track # None
         THEN loop([s EXCEPT !.midi_playing = TRUE, !.u_midi_time = 0,
                             !.u_iter = s.midi_track])
         ELSE tail(s)

\* ------------------------------------------------- the encoder callbacks
\* a remainder that takes the sign of a, as C's % does
PyMod_truncated(a, n) == IF a >= 0 THEN a % n ELSE 0 - ((0 - a) % n)

\* Python's a % n for n > 0: the result is in 0..n-1, also for a < 0
PyMod(a, n) == a % n

increment_song(s) ==
    IF ~is_playing(s)
    THEN [s EXCEPT !.selected = PyMod(s.selected + 1, Len(songs))]
    ELSE s

decrement_song(s) ==
    IF ~is_playing(s)
    THEN [s EXCEPT !.selected = PyMod(s.selected - 1, Len(songs))]
    ELSE s

\* songs[selected] of the source is songs[selected + 1] here
toggle_song(s, index, outcome) ==
    LET chosen == IF index # << >>
                  THEN [s EXCEPT !.selected = PyMod(index[1], Len(songs))]
                  ELSE s
    IN IF is_playing(chosen) THEN stop(chosen)
       ELSE play(chosen, chosen.selected + 1, outcome)

Min(a, b) == IF a < b THEN a ELSE b
Max(a, b) == IF a > b THEN a ELSE b

increment_volume(s) ==
    IF s.level < LevelMax
    THEN LET l == Min(s.level + LevelStep, LevelMax)
         IN [s EXCEPT !.level = l, !.audio_level = l]
    ELSE s

\* line 299 reads the level back from the Audio Channel
decrement_volume(s) ==
    IF s.level > 0
    THEN LET l == Max(s.audio_level - LevelStep, 0)
         IN [s EXCEPT !.level = l, !.audio_level = l]
    ELSE s

\* ------------------------------------------------------------------ Init
Init ==
    /\ song = None
    /\ audio_file = None
    /\ audio_wav = None
    /\ audio_playing = FALSE
    /\ midi_track = None
    /\ midi_playing = FALSE
    /\ start_time = 0
    /\ streams = {}
    /\ open_files = {}
    /\ cursors = << >>
    /\ midi_out = << >>
    /\ now = 0
    /\ pc = "none"
    /\ u_iter = None
    /\ u_midi_time = 0
    /\ u_idx = 0
    /\ u_delay = 0
    /\ u_wake = 0
    /\ plays = 0
    /\ play_result = "none"
    /\ last = NoCall
    /\ cancelled = {}
    /\ selected = 0
    /\ level \in InitLevels
    /\ audio_level = level
    /\ origin = NoOrigin
    /\ vcalls = 0

\* --------------------------------------------------------------- actions
\* a caller calls player.play(x); x = None stands for any non-Song
Play ==
    \E x \in {None} \cup (1..Len(songs)), outcome \in AudioOutcomes :
        /\ IsSong(x) => plays < MaxPlays
        /\ (~IsSong(x) \/ ~has_audio(x)) => outcome = "ok"
        /\ \E s \in {Cur} : \E r \in {play(s, x, outcome)} :
               /\ Commit([r EXCEPT !.cancelled = Cancel(s)])
               /\ last' = Call("play", x, outcome, s)

\* a caller calls player.stop()
Stop ==
    /\ \E s \in {Cur} : \E r \in {stop(s)} :
           /\ Commit([r EXCEPT !.cancelled = Cancel(s)])
           /\ last' = Call("stop", None, "none", s)

\* the periodic driver calls update()
Update ==
    /\ pc = "none"
    /\ \E s \in {Cur} : \E r \in {update(s)} :
           /\ Commit(r)
           /\ last' = Call("update", None, "none", s)

\* asyncio.sleep(delay / 1000000) returns, not before the delay has passed
Resume ==
    /\ pc = "sleep"
    /\ now >= u_wake
    /\ \E s \in {Cur} : \E r \in {after_sleep(s, TRUE)} :
           /\ Commit(r)
           /\ last' = Call("resume", None, "none", s)

\* the Audio Channel reaches the end of the waveform
AudioFinish ==
    /\ streams # {}
    /\ streams' = {}
    /\ last' = NoCall
    /\ UNCHANGED << song, audio_file, audio_wav, audio_playing, midi_track,
                    midi_playing, start_time, open_files, cursors, midi_out,
                    now, pc, u_iter, u_midi_time, u_idx, u_delay, u_wake,
                    plays, play_result, cancelled, selected, level,
                    audio_level, origin, vcalls >>

\* the clock advances
Tick ==
    /\ now < MaxTime \/ (pc = "sleep" /\ now < u_wake)
    /\ now' = now + 1
    /\ last' = NoCall
    /\ UNCHANGED << song, audio_file, audio_wav, audio_playing, midi_track,
                    midi_playing, start_time, streams, open_files, cursors,
                    midi_out, pc, u_iter, u_midi_time, u_idx, u_delay,
                    u_wake, plays, play_result, cancelled, selected, level,
                    audio_level, origin, vcalls >>

\* the encoder is turned or clicked; toggle_song may be given an index
IncrementSong ==
    \E s \in {Cur} : \E r \in {increment_song(s)} :
        /\ Commit(r)
        /\ last' = Call("increment_song", None, "none", s)

DecrementSong ==
    \E s \in {Cur} : \E r \in {decrement_song(s)} :
        /\ Commit(r)
        /\ last' = Call("decrement_song", None, "none", s)

ToggleSong ==
    \E index \in Indices, outcome \in AudioOutcomes :
        \E s \in {Cur} :
            LET x == IF index # << >> THEN PyMod(index[1], Len(songs)) + 1
                     ELSE s.selected + 1
                starts == ~is_playing(s)
            IN /\ starts => plays < MaxPlays
               /\ (~starts \/ ~IsSong(x) \/ ~has_audio(x)) => outcome = "ok"
               /\ \E r \in {toggle_song(s, index, outcome)} :
                      /\ Commit([r EXCEPT !.cancelled = Cancel(s)])
                      /\ last' = [Call("toggle_song",
                                       IF starts THEN x ELSE None, outcome, s)
                                      EXCEPT !.index = index]

IncrementVolume ==
    /\ vcalls < MaxVolumeCalls
    /\ \E s \in {Cur} : \E r \in {increment_volume(s)} :
           /\ Commit([r EXCEPT !.vcalls = @ + 1])
           /\ last' = Call("increment_volume", None, "none", s)

DecrementVolume ==
    /\ vcalls < MaxVolumeCalls
    /\ \E s \in {Cur} : \E r \in {decrement_volume(s)} :
           /\ Commit([r EXCEPT !.vcalls = @ + 1])
           /\ last' = Call("decrement_volume", None, "none", s)

\* the engine under any caller of play() and stop()
Next == Play \/ Stop \/ Update \/ Resume \/ AudioFinish \/ Tick

\* the program on a board with one encoder (lines 320-324): the engine is
\* called by the song callbacks only
ProgramNext ==
    \/ ToggleSong \/ IncrementSong \/ DecrementSong
    \/ Update \/ Resume \/ AudioFinish \/ Tick

ProgramSpec == Init /\ [][ProgramNext]_vars

\* the engine under any caller, with the volume encoder of lines 328-329
VolumeNext == Next \/ IncrementVolume \/ DecrementVolume

VolumeSpec == Init /\ [][VolumeNext]_vars

Spec == Init /\ [][Next]_vars

\* the driver keeps calling update(), every sleep ends, the clock advances
\* and the waveform is finite; callers of play() and stop() are free
LiveSpec ==
    /\ Init /\ [][Next]_vars
    /\ WF_vars(Update) /\ WF_vars(Resume) /\ WF_vars(Tick)
    /\ WF_vars(AudioFinish)

\* ---------------------------------------------------------------- claims
InUpdate(op) == op \in {"update", "resume"}
Exhausted(c) == Left(Cur, c) = 0

\* C1: at most one session exists: there are never two open audio handles
\* nor two audio streams, and the only open handle and the only stream are
\* those of the session the engine holds, so play(songB) over songA has
\* released songA's handle and stream before songB's are opened.
C1_SingleSession ==
    /\ Cardinality(open_files) <= 1
    /\ Cardinality(streams) <= 1
    /\ open_files \subseteq {audio_file}
    /\ streams \subseteq {audio_file}

\* play(songB) was called while songA was streaming, and songB streams
C1_Witness ==
    /\ last.op = "play"
    /\ last.pre.streams # {}
    /\ last.pre.open_files # {}
    /\ IsSong(last.arg)
    /\ last.arg # last.pre.song
    /\ streams # {}
    /\ open_files # {}

C3_CatchUp ==
    /\ \A i \in 1..Len(midi_out) :
           midi_out[i].delay <= 0 => ~midi_out[i].slept
    /\ pc = "sleep" => u_delay > 0
    /\ \A i, j \in 1..Len(midi_out) :
           (i < j /\ midi_out[i].cur = midi_out[j].cur)
               => midi_out[i].idx < midi_out[j].idx

\* cumulative times 1, 2, 4 with 5 units elapsed: the three events were
\* sent in one step, in order, and update() waits for the fourth
C3_Witness ==
    /\ pc = "sleep"
    /\ u_idx = 4
    /\ u_delay = 2
    /\ Len(midi_out) >= 3
    /\ LET n == Len(midi_out)
       IN /\ \A k \in 0..2 :
                 /\ midi_out[n - k].cur = u_iter
                 /\ midi_out[n - k].idx = 3 - k
                 /\ midi_out[n - k].t = start_time + 5
                 /\ ~midi_out[n - k].slept
          /\ midi_out[n - 2].delay = -4
          /\ midi_out[n - 1].delay = -3
          /\ midi_out[n].delay = -1

\* C4: play(x) with x not a Song returns false and leaves the engine and
\* the Audio Channel exactly as they were, Idle or Playing.
C4_InvalidPlayNoEffect ==
    (last.op = "play" /\ ~IsSong(last.arg))
        => (play_result = "false" /\ Snapshot(Cur) = last.pre)

\* C5: when the audio asset fails to open or decode, play() still returns
\* true, records a fresh start_time, leaves the audio segment inactive and
\* holds no open audio handle.
C5_AudioFailureNonFatal ==
    (last.op = "play" /\ last.outcome \in {"open_fail", "decode_fail"})
        => /\ play_result = "true"
           /\ start_time = now
           /\ ~audio_playing
           /\ audio_file = None
           /\ open_files = {}

\* C6: during the session of a song with only a MIDI asset the audio
\* segment flag is inactive, and update() ends that session only when its
\* cursor is exhausted.
C6_MidiOnlyAudioInactive ==
    /\ MidiOnly(song) => ~audio_playing
    /\ (InUpdate(last.op) /\ MidiOnly(last.pre.song) /\ song = None)
           => Exhausted(last.pre.midi_track)

\* C7: during the session of a song with only an audio asset no command is
\* sent to MIDI Output, and update() does not end the session while the
\* Audio Channel is streaming.
C7_AudioOnlyNoMidi ==
    [][AudioOnly(song) =>
          /\ midi_out' = midi_out
          /\ (InUpdate(last'.op) /\ streams # {}) => song' = song]_vars

\* an update() suspended in an earlier MIDI session resumed during an
\* audio-only session that still streams and still holds the old cursor
C7_Witness ==
    /\ AudioOnly(song)
    /\ last.op = "resume"
    /\ streams # {}
    /\ midi_track # None
    /\ ~Exhausted(midi_track)

\* C8: update() ends a session only when the Audio Channel is not
\* streaming and the session's MIDI cursor has no event left.
C8_AutoStopOnlyWhenBothDone ==
    (InUpdate(last.op) /\ last.pre.song # None /\ song = None)
        => /\ last.pre.streams = {}
           /\ has_midi(last.pre.song) => Exhausted(last.pre.midi_track)

\* C9: under fairness every session opened by a play() that returned true
\* comes to an end: the engine is Idle again or another play() replaced
\* the session; no stop() from a caller is needed for that.
C9_SessionEnds ==
    \A n \in 1..MaxPlays :
        (plays = n /\ song # None /\ play_result = "true")
            ~> (song = None \/ plays # n)

\* update() ended, by itself, a session with both assets that had streamed
\* and dispatched its whole cursor
C9_Witness ==
    /\ InUpdate(last.op)
    /\ play_result = "true"
    /\ IsSong(last.pre.song)
    /\ has_midi(last.pre.song) /\ has_audio(last.pre.song)
    /\ last.pre.audio_playing
    /\ Exhausted(last.pre.midi_track)
    /\ song = None

\* C10: in an audio-only session whose stream has ended, the first step of
\* update() that runs (a new call, or the resumption of a call suspended
\* since an earlier session) returns with the engine Idle and the audio
\* handle closed.
C10_OneUpdateToIdle ==
    (InUpdate(last.op) /\ AudioOnly(last.pre.song) /\ last.pre.streams = {})
        => (song = None /\ audio_file = None /\ open_files = {}
            /\ pc = "none")

\* the session streamed, the stream ended, update() was called once
C10_Witness ==
    /\ last.op = "update"
    /\ AudioOnly(last.pre.song)
    /\ last.pre.audio_playing
    /\ last.pre.audio_file # None
    /\ last.pre.streams = {}
    /\ play_result = "true"
    /\ song = None

\* C11: after stop() the Audio Channel is not streaming, no audio handle is
\* held, the MIDI segment is inactive and no song is held; a stop() called
\* while Idle (a second stop() in a row included) changes nothing.
C11_StopIdempotent ==
    last.op = "stop"
        => /\ streams = {}
           /\ audio_file = None
           /\ open_files = {}
           /\ ~midi_playing
           /\ song = None
           /\ last.pre.song = None => Snapshot(Cur) = last.pre

\* stop() was called while Idle, after a session, with update() suspended
C11_Witness ==
    /\ last.op = "stop"
    /\ last.pre.song = None
    /\ plays > 0
    /\ pc = "sleep"

\* C12: no song is held after construction, and a call that finds the
\* engine Idle and leaves it Playing is a play() that returned true.
C12_PlayingOnlyByPlayTrue ==
    /\ plays = 0 => ~is_playing(Cur)
    /\ (last.op # "none" /\ last.pre.song = None /\ is_playing(Cur))
           => (last.op = "play" /\ play_result = "true")

SongCallbacks == {"increment_song", "decrement_song", "toggle_song"}

\* C13: a song callback that finds the engine Playing leaves the selected
\* index as it was.
C13_SelectedOnlyWhileIdle ==
    (last.op \in SongCallbacks /\ last.pre.song # None)
        => selected = last.selected

\* C19: the selected index is always an index of the catalog, and a
\* toggle_song that finds the engine Idle plays the song at that index.
C19_SelectedInRange ==
    /\ selected \in 0..(Len(songs) - 1)
    /\ (last.op = "toggle_song" /\ last.pre.song = None)
           => (IsSong(song) /\ song = selected + 1 /\ last.arg = song)

\* toggle_song(-1) on an Idle engine wrapped to the last song and played it
C19_Witness ==
    /\ last.op = "toggle_song"
    /\ last.index = << -1 >>
    /\ last.pre.song = None
    /\ last.selected = 0
    /\ selected = Len(songs) - 1
    /\ song = Len(songs)

VolumeCallbacks == {"increment_volume", "decrement_volume"}

\* C14: only increment_volume and decrement_volume change the gain level
\* (play, stop and update never do), and a play() that starts an audio
\* stream leaves the Audio Channel's level equal to the gain level.
C14_GainPersists ==
    [][/\ level' # level => last'.op \in VolumeCallbacks
       /\ (last'.op = "play" /\ streams' # {}) => audio_level' = level']_vars

\* the volume was turned to a level other than the one configure() resets
\* to, then play() started a stream
C14_Witness ==
    /\ last.op = "play"
    /\ streams # {}
    /\ vcalls > 0
    /\ level # DefaultLevel
    /\ audio_level = level

\* the sum of the delta-times of the first k events
RECURSIVE DueTime(_, _)
DueTime(evs, k) == IF k = 0 THEN 0 ELSE DueTime(evs, k - 1) + evs[k].delta_us

Mapped(status) ==
    IF status = NOTE_ON THEN "send_note_on"
    ELSE IF status = NOTE_OFF THEN "send_note_off"
    ELSE IF status = CONTROL_CHANGE THEN "send_control_change"
    ELSE IF status = PROGRAM_CHANGE THEN "send_program_change"
    ELSE "nothing"

\* the commands of the first k events of evs, each with its place in evs
RECURSIVE Image(_, _)
Image(evs, k) ==
    IF k = 0 THEN << >>
    ELSE IF Mapped(evs[k].status) = "nothing" THEN Image(evs, k - 1)
    ELSE Append(Image(evs, k - 1),
                [cmd |-> Mapped(evs[k].status), idx |-> k])

Sent == [i \in 1..Len(midi_out) |->
            [cmd |-> midi_out[i].cmd, idx |-> midi_out[i].idx]]

\* update() left its loop because the cursor was exhausted, not on a stop()
RanOut ==
    /\ InUpdate(last.op)
    /\ IsSong(last.pre.song)
    /\ has_midi(last.pre.song)
    /\ pc = "none"
    /\ last.op = "resume" => last.pre.midi_playing

C17_StaleUpdateSparesLaterSession ==
    (/\ last.op = "resume"
     /\ last.stale
     /\ IsSong(last.pre.song)
     /\ \/ last.pre.streams # {}
        \/ has_midi(last.pre.song) /\ ~Exhausted(last.pre.midi_track))
        => /\ song = last.pre.song
           /\ audio_file = last.pre.audio_file

\* C18: an Idle engine with no update() in progress holds nothing of a
\* session: both segment flags are off and no audio file handle is open.
C18_IdleIsTornDown ==
    (song = None /\ pc = "none")
        => /\ ~audio_playing
           /\ ~midi_playing
           /\ audio_file = None
           /\ open_files = {}

TypeOK ==
    /\ song \in 0..Len(songs)
    /\ pc \in {"none", "sleep"}
    /\ plays \in 0..MaxPlays
====
